---- MODULE Spec2Model ----
(***************************************************************************)
(* A model of weeplot/genplot.py: the chart spec (GeneralPlot / TimePlot), *)
(* its setters, and render with everything render calls.                  *)
(*                                                                         *)
(* Numbers.  X values are integers (seconds for the time variant).  Y      *)
(* values are integers counting tenths, so the fallback Y scale            *)
(* (0.0, 1.0, 0.2) is <<0, 10, 2>>.  Colours are the packed integers that  *)
(* tobgr returns.  Python's None is the integer None below, which lies     *)
(* outside every data domain of the model.                                 *)
(***************************************************************************)
EXTENDS Integers, Sequences, FiniteSets, TLC

VARIABLES
    variant,            \* "general" (GeneralPlot) or "time" (TimePlot)
    anti_alias,         \* self.anti_alias
    image_size,         \* <<width, height>> asked for in the plot options
    unit_label,         \* self.unit_label, "" when unset
    unencodable,        \* the labels the configured fonts cannot draw as native text
    chart_line_colors,  \* palette of stroke colours
    chart_fill_colors,  \* palette of fill colours
    chart_line_widths,  \* palette of widths
    line_list,          \* self.line_list, in insertion order
    xscale,             \* self.xscale, a triple, None for an unset component
    yscale,             \* self.yscale
    x_label_format,     \* self.x_label_format, NoFormat when unset
    y_label_format,     \* self.y_label_format
    render_rose,        \* self.render_rose
    rose_rotation,      \* self.rose_rotation
    rose_color,         \* self.rose_color
    show_daynight,      \* self.show_daynight
    daynight_gradient,  \* self.daynight_gradient
    latitude,           \* self.latitude
    canvas,             \* the drawing calls of the last render, in call order
    xdata,              \* <<xmin, xmax>> the last render handed to the Scale Engine for X
    ydata,              \* <<ymin, ymax>> the last render found over the series' Y values
    resolved,           \* TRUE while xscale and yscale are those the last render left
    dn_answer,          \* what getDayNightTransitions told the last render
    blend_call,         \* the last call of blend: arguments, hues and result
    connection,         \* the weedb Connection: "none" until one is constructed, then "open"
    schema_gen,         \* the generator the last genSchemaOf call returned
    db_call,            \* the last database operation: what the client did, what the caller got
    error,              \* the exception raised by the last operation, "none" if none
    renders             \* number of render calls so far

vars == <<variant, anti_alias, image_size, unit_label, unencodable, chart_line_colors, chart_fill_colors, chart_line_widths,
          line_list, xscale, yscale, x_label_format, y_label_format,
          render_rose, rose_rotation, rose_color,
          show_daynight, daynight_gradient, latitude,
          canvas, xdata, ydata, resolved, dn_answer, blend_call,
          connection, schema_gen, db_call, error, renders>>

(***************************************************************************)
(* Values                                                                  *)
(***************************************************************************)
None == -999999

NoFormat == "None"

UnsetScale == <<None, None, None>>

\* tobgr of the default palette ['0xff0000', '0x00ff00', '0x0000ff']
DefaultLineColors == <<255, 65280, 16711680>>

DefaultLineWidths == <<1, 1, 1>>

\* a two-entry palette configured through plot_dict
ShortLineColors == <<255, 65280>>

ShortFillColors == <<8421504, 12632256>>

ShortLineWidths == <<1, 3>>

x_nticks == 10

y_nticks == 10

x_label_spacing == 2

y_label_spacing == 2

DefaultImageWidth == 300

DefaultImageHeight == 180

DefaultDayColor == 16777215

DefaultNightColor == 15790320

DefaultEdgeColor == 15724527

DefaultGradient == 20

\* the size asked for when the plot options name none
DefaultImageSize == <<DefaultImageWidth, DefaultImageHeight>>

image_width == image_size[1] * anti_alias

image_height == image_size[2] * anti_alias

(***************************************************************************)
(* PlotLine.  bar_width is a sequence aligned with x for a bar series and  *)
(* the empty sequence otherwise.  A vector sample is a signed integer (a   *)
(* complex number on the real axis), so abs() is the absolute value.       *)
(***************************************************************************)
PlotLine(x, y, plot_type, color, fill_color, width, bar_width, vector_rotate, gap) ==
    [x |-> x, y |-> y, label |-> "L", plot_type |-> plot_type,
     color |-> color, fill_color |-> fill_color, width |-> width,
     bar_width |-> bar_width, vector_rotate |-> vector_rotate,
     line_gap_fraction |-> gap]

\* One drawing call.  iline is the insertion index (from 0) of the series the
\* call draws, k the sample index (from 1); unused fields are None.  enc is the
\* form in which a text call handed its string over: "native" or "utf-8".
Op(kind, iline, k, x0, y0, x1, y1, fill, outline, width) ==
    [kind |-> kind, iline |-> iline, k |-> k, x0 |-> x0, y0 |-> y0, x1 |-> x1,
     y1 |-> y1, fill |-> fill, outline |-> outline, width |-> width,
     maxdx |-> None, segments |-> {}, text |-> "", blend |-> <<>>, enc |-> "none"]

Abs(v) == IF v < 0 THEN -v ELSE v

SetMin(S) == CHOOSE m \in S : \A v \in S : m <= v

SetMax(S) == CHOOSE m \in S : \A v \in S : m >= v

Range(s) == {s[i] : i \in DOMAIN s}

RECURSIVE Flatten(_)
Flatten(ss) == IF ss = <<>> THEN <<>> ELSE Head(ss) \o Flatten(Tail(ss))

\* weeutil.weeutil.min_with_none / max_with_none: None values are skipped,
\* and the result is None when nothing is left.
min_with_none(s) ==
    IF Range(s) \ {None} = {} THEN None ELSE SetMin(Range(s) \ {None})

max_with_none(s) ==
    IF Range(s) \ {None} = {} THEN None ELSE SetMax(Range(s) \ {None})

(***************************************************************************)
(* Setters                                                                 *)
(***************************************************************************)
HasNoneX(line) == None \in Range(line.x)

\* addLine without the test of line 174
AddLineListUnchecked(lines, line) == Append(lines, line)

\* addLine: raise ViolatedPrecondition before touching line_list, else append
AddLineList(lines, line) == IF HasNoneX(line) THEN lines ELSE Append(lines, line)

AddLineError(line) == IF HasNoneX(line) THEN "ViolatedPrecondition" ELSE "none"

(***************************************************************************)
(* The Scale Engine (weeplot.utilities.scale, scaletime, pickLabelFormat)  *)
(* is not part of the modelled file; it is modelled from its contract:     *)
(* set components of the partial scale are kept, unset ones are filled     *)
(* with round values that cover the data, and a fully set scale is         *)
(* returned as it is.  With no data the unset components are filled from   *)
(* the range [0, 0].                                                       *)
(***************************************************************************)
NiceIncrements == {1, 2, 5, 10, 20, 50, 100, 200, 500, 1000}

NiceTimeIncrements == {3600, 10800, 21600, 86400, 604800, 2592000}

FloorTo(v, inc) == (v \div inc) * inc

CeilTo(v, inc) == -FloorTo(-v, inc)

PickIncrement(incs, span, nsteps) ==
    IF \E c \in incs : span <= c * nsteps
    THEN SetMin({c \in incs : span <= c * nsteps})
    ELSE SetMax(incs)

FillScale(dmin, dmax, prescale, incs, nsteps) ==
    LET lo  == IF dmin = None THEN 0 ELSE dmin
        hi  == IF dmax = None THEN lo ELSE dmax
        inc == IF prescale[3] # None THEN prescale[3]
               ELSE PickIncrement(incs, hi - lo, nsteps)
        mn  == IF prescale[1] # None THEN prescale[1] ELSE FloorTo(lo, inc)
        mx  == IF prescale[2] # None THEN prescale[2]
               ELSE IF CeilTo(hi, inc) > mn THEN CeilTo(hi, inc) ELSE mn + inc
    IN  <<mn, mx, inc>>

scale(dmin, dmax, prescale, nsteps) ==
    IF None \notin Range(prescale) THEN prescale
    ELSE FillScale(dmin, dmax, prescale, NiceIncrements, nsteps)

scaletime(tmin, tmax) ==
    FillScale(tmin, tmax, UnsetScale, NiceTimeIncrements, x_nticks)

\* the number of decimals grows as the increment drops below one; den is the
\* number of model units in 1.0 (1 for X, 10 for Y)
pickLabelFormat(inc, den) == IF inc >= den THEN "%.0f" ELSE "%.1f"

\* weeutil.weeutil.stampgen: the gridline positions from start to stop
stampgen(start, stop, inc) ==
    IF inc <= 0 \/ stop < start THEN <<>>
    ELSE [i \in 1..((stop - start) \div inc + 1) |-> start + (i - 1) * inc]

(***************************************************************************)
(* Scaling and label formats                                               *)
(***************************************************************************)
\* _calcXMinMax over lines[i..], starting from the running <<xmin, xmax>>
RECURSIVE XMinMaxFrom(_, _, _)
XMinMaxFrom(lines, i, acc) ==
    IF i > Len(lines) THEN acc
    ELSE LET line      == lines[i]
             raw_min   == min_with_none(line.x)
             xline_max == max_with_none(line.x)
             xline_min == IF line.plot_type = "bar"
                          THEN raw_min - line.bar_width[1]
                          ELSE raw_min
         IN  XMinMaxFrom(lines, i + 1,
                         <<min_with_none(<<acc[1], xline_min>>),
                           max_with_none(<<acc[2], xline_max>>)>>)

\* _calcXMinMax without the adjustment of lines 580-581
CalcXMinMaxUnadjusted(lines) ==
    <<min_with_none(Flatten([i \in DOMAIN lines |-> lines[i].x])),
      max_with_none(Flatten([i \in DOMAIN lines |-> lines[i].x]))>>

\* _calcXMinMax that adjusts by the first sample's own left edge
CalcXMinMaxFirstSample(lines) ==
    <<min_with_none([i \in DOMAIN lines |->
                        IF lines[i].plot_type = "bar"
                        THEN lines[i].x[1] - lines[i].bar_width[1]
                        ELSE min_with_none(lines[i].x)]),
      max_with_none(Flatten([i \in DOMAIN lines |-> lines[i].x]))>>

CalcXMinMax(lines) == XMinMaxFrom(lines, 1, <<None, None>>)

\* _calcXScaling that drops the scale already held and starts from the data again
GeneralCalcXScalingRecomputed(lines, xs) ==
    scale(CalcXMinMax(lines)[1], CalcXMinMax(lines)[2], UnsetScale, x_nticks)

\* GeneralPlot._calcXScaling
GeneralCalcXScaling(lines, xs) ==
    scale(CalcXMinMax(lines)[1], CalcXMinMax(lines)[2], xs, x_nticks)

\* TimePlot._calcXScaling
\* the time scale recomputed from the data whatever the caller set
TimeCalcXScalingAlways(lines, xs) ==
    scaletime(CalcXMinMax(lines)[1], CalcXMinMax(lines)[2])

TimeCalcXScaling(lines, xs) ==
    IF None \in Range(xs)
    THEN scaletime(CalcXMinMax(lines)[1], CalcXMinMax(lines)[2])
    ELSE xs

CalcXScaling(v, lines, xs) ==
    IF v = "time" THEN TimeCalcXScaling(lines, xs) ELSE GeneralCalcXScaling(lines, xs)

\* whether this render's _calcXScaling calls _calcXMinMax for the Scale Engine
XScalingUsesData(v, xs) == v = "general" \/ None \in Range(xs)

\* _calcYScaling, lines 537-548, with a vector series treated as any other
YLineMinMaxRaw(line) == <<min_with_none(line.y), max_with_none(line.y)>>

\* the per-series Y extent of _calcYScaling
YLineMinMax(line) ==
    IF line.plot_type = "vector"
    THEN LET mags == {Abs(v) : v \in Range(line.y) \ {None}}
             yline_max == IF mags = {} THEN None ELSE SetMax(mags)
         IN  <<IF yline_max # None THEN -yline_max ELSE None, yline_max>>
    ELSE <<min_with_none(line.y), max_with_none(line.y)>>

RECURSIVE YMinMaxFrom(_, _, _)
YMinMaxFrom(lines, i, acc) ==
    IF i > Len(lines) THEN acc
    ELSE YMinMaxFrom(lines, i + 1,
                     <<min_with_none(<<acc[1], YLineMinMax(lines[i])[1]>>),
                       max_with_none(<<acc[2], YLineMinMax(lines[i])[2]>>)>>)

CalcYMinMax(lines) == YMinMaxFrom(lines, 1, <<None, None>>)

FallbackYScale == <<0, 10, 2>>

\* _calcYScaling without the branch of lines 551-553
CalcYScalingNoFallback(lines, ys) ==
    scale(CalcYMinMax(lines)[1], CalcYMinMax(lines)[2], ys, y_nticks)

\* _calcYScaling
CalcYScaling(lines, ys) ==
    IF CalcYMinMax(lines)[1] = None /\ CalcYMinMax(lines)[2] = None
    THEN FallbackYScale
    ELSE scale(CalcYMinMax(lines)[1], CalcYMinMax(lines)[2], ys, y_nticks)

\* GeneralPlot._calcXLabelFormat, given the resolved X scale
GeneralCalcXLabelFormat(xs, fmt) ==
    IF fmt = NoFormat THEN pickLabelFormat(xs[3], 1) ELSE fmt

\* TimePlot._calcXLabelFormat
TimeCalcXLabelFormat(lines, fmt) ==
    IF fmt # NoFormat THEN fmt
    ELSE LET xmin == CalcXMinMax(lines)[1]
             xmax == CalcXMinMax(lines)[2]
         IN  IF xmin # None /\ xmax # None
             THEN IF xmax - xmin > 30 * 24 * 3600 THEN "%x"
                  ELSE IF xmax - xmin > 24 * 3600 THEN "%x %X"
                  ELSE "%X"
             ELSE NoFormat

CalcXLabelFormat(v, lines, xs, fmt) ==
    IF v = "time" THEN TimeCalcXLabelFormat(lines, fmt)
    ELSE GeneralCalcXLabelFormat(xs, fmt)

\* _calcYLabelFormat, given the resolved Y scale
CalcYLabelFormat(ys, fmt) ==
    IF fmt = NoFormat THEN pickLabelFormat(ys[3], 10) ELSE fmt

(***************************************************************************)
(* Drawing.  Every operator returns the drawing calls it makes, in order.  *)
(***************************************************************************)
image_background_color == 16119285

chart_background_color == 14211288

chart_gridline_color == 10526880

\* render, lines 206-210: the canvas and the chart area
(***************************************************************************)
(* Text.  A string is known to the model by the call site that draws it;   *)
(* unencodable holds the sites whose string the configured font cannot     *)
(* draw in its native form, so that drawing it raises UnicodeEncodeError.  *)
(***************************************************************************)
\* the sites that draw on the surface _getImageDraw returns (line 239)
UniDrawKinds == {"bottom_label", "unit_label", "legend", "xlabel", "ylabel"}

\* UniDraw.text: the string as it is, and again as UTF-8 bytes should that raise
UniDrawText(op, bad) ==
    [op EXCEPT !.enc = IF op.kind \in bad THEN "utf-8" ELSE "native"]

\* ImageDraw.ImageDraw.text on a plain surface: the string as it is, or the exception
ImageDrawText(op, bad) ==
    [raised |-> op.kind \in bad, op |-> [op EXCEPT !.enc = "native"]]

\* the calls render makes on its UniDraw surface
ViaUniDraw(ops, bad) ==
    [i \in DOMAIN ops |->
        IF ops[i].kind \in UniDrawKinds THEN UniDrawText(ops[i], bad) ELSE ops[i]]

RenderCanvas ==
    <<Op("image", None, None, 0, 0, image_width, image_height,
         image_background_color, None, None),
      Op("chart_rect", None, None, None, None, None, None,
         chart_background_color, None, None)>>

\* _renderBottom
RenderBottom == <<Op("bottom_label", None, None, None, None, None, None, 0, None, None)>>

\* the palette lookup without the cyclic reuse
LineColorFirstEntry(colors, line, iline) ==
    IF line.color = None THEN colors[1] ELSE line.color

\* the stroke colour of the series at insertion index iline (from 0)
LineColor(colors, line, iline) ==
    IF line.color = None THEN colors[(iline % Len(colors)) + 1] ELSE line.color

LineFillColor(fills, line, iline) ==
    IF line.fill_color = None THEN fills[(iline % Len(fills)) + 1] ELSE line.fill_color

LineWidth(widths, line, iline, aa) ==
    (IF line.width = None THEN widths[(iline % Len(widths)) + 1] ELSE line.width) * aa

\* the palette index _renderTopBand uses for the legend entry at position i (from 0)
LegendColor(colors, line, i) ==
    IF line.color = None THEN colors[(i % Len(colors)) + 1] ELSE line.color

\* _renderTopBand: the band, the unit label on the left when there is one, then
\* one legend entry per series in insertion order
RenderTopBand(lines, colors, ulabel) ==
    <<Op("top_band", None, None, 0, 0, image_width, None, chart_background_color, None, None)>>
    \o (IF ulabel # ""
        THEN <<[Op("unit_label", None, None, None, 0, None, None, 0, None, None)
                EXCEPT !.text = ulabel]>>
        ELSE <<>>)
    \o [i \in 1..Len(lines) |->
          [Op("legend", i - 1, None, None, 0, None, None,
              LegendColor(colors, lines[i], i - 1), None, None)
           EXCEPT !.text = lines[i].label]]

FlipDayNight(color) ==
    IF color = DefaultDayColor THEN DefaultNightColor ELSE DefaultDayColor

\* every band in the colour of the left edge's condition
BandColorUnflipped(first, k) ==
    IF first = "day" THEN DefaultDayColor ELSE DefaultNightColor

\* the colour of band k (from 1): the left edge's condition, flipped at each transition
RECURSIVE BandColor(_, _)
BandColor(first, k) ==
    IF k = 1 THEN (IF first = "day" THEN DefaultDayColor ELSE DefaultNightColor)
    ELSE FlipDayNight(BandColor(first, k - 1))

\* _renderDayNight, lines 264-274
DayNightBands(xs, ys, first, transitions) ==
    [k \in 1..(Len(transitions) + 1) |->
        Op("daynight_band", None, k,
           IF k = 1 THEN xs[1] ELSE transitions[k - 1], ys[1],
           IF k <= Len(transitions) THEN transitions[k] ELSE xs[2], ys[2],
           BandColor(first, k), None, None)]

\* line 284, for a latitude that is a multiple of 3 degrees
FadeWidth(lat) == 120 + (10 * Abs(lat)) \div 3

\* line 291: d is even, so d*(nfade+1)/2 is the integer below
FadeLeft(t, d, nfade, z) == t - (d \div 2) * (nfade + 1) + d * z

\* line 292
FadePainted(x1, d, last_, next_) == last_ < x1 /\ x1 < next_

\* the fade rectangles around transition i (from 1); color1 is the colour left of it
FadesOfTransition(xs, ys, first, transitions, i, d, nfade) ==
    LET last_  == IF i = 1 THEN xs[1] ELSE transitions[i - 1]
        next_  == IF i < Len(transitions) THEN transitions[i + 1] ELSE xs[2]
        color1 == BandColor(first, i)
        color2 == FlipDayNight(color1)
        zs     == [z \in 1..(nfade - 1) |-> z]
        painted == SelectSeq(zs, LAMBDA z : FadePainted(FadeLeft(transitions[i], d, nfade, z),
                                                         d, last_, next_))
    IN  [n \in 1..Len(painted) |->
            [Op("daynight_fade", i - 1, painted[n],
                FadeLeft(transitions[i], d, nfade, painted[n]), ys[1],
                FadeLeft(transitions[i], d, nfade, painted[n]) + d, ys[2],
                None, None, None)
             EXCEPT !.blend = <<color2, color1, painted[n], nfade>>]]

\* lines 275-301
DayNightFades(xs, ys, first, transitions, lat, nfade) ==
    IF nfade = 0 THEN <<>>
    ELSE Flatten([i \in 1..Len(transitions) |->
                    FadesOfTransition(xs, ys, first, transitions, i, FadeWidth(lat), nfade)])

\* lines 303-305
DayNightEdges(ys, transitions) ==
    [i \in 1..Len(transitions) |->
        Op("daynight_edge", i - 1, None, transitions[i], ys[1], transitions[i], ys[2],
           DefaultEdgeColor, None, None)]

\* the edge lines drawn first
RenderDayNightEdgesFirst(xs, ys, first, transitions, lat, nfade) ==
    DayNightEdges(ys, transitions)
    \o DayNightBands(xs, ys, first, transitions)
    \o DayNightFades(xs, ys, first, transitions, lat, nfade)

\* _renderDayNight
RenderDayNight(xs, ys, first, transitions, lat, nfade) ==
    DayNightBands(xs, ys, first, transitions)
    \o DayNightFades(xs, ys, first, transitions, lat, nfade)
    \o DayNightEdges(ys, transitions)

\* _genXLabel: the label is the value formatted with the resolved format; TimePlot
\* gives the empty label when no format was resolved
GenXLabel(fmt) == IF fmt = NoFormat THEN "" ELSE fmt

\* _renderXAxes: a gridline at every step, a label at every x_label_spacing-th
RenderXAxes(xs, ys, fmt, aa) ==
    Flatten([n \in 1..Len(stampgen(xs[1], xs[2], xs[3])) |->
        LET x == stampgen(xs[1], xs[2], xs[3])[n]
        IN  <<Op("xgrid", None, n, x, ys[1], x, ys[2], chart_gridline_color, None, aa)>>
            \o IF (n - 1) % x_label_spacing = 0
               THEN <<[Op("xlabel", None, n, x, None, None, None, 0, None, None)
                       EXCEPT !.text = GenXLabel(fmt)]>>
               ELSE <<>>])

\* line 331: int((ymax - ymin) / yinc + 1.5), for yinc > 0
NYGridLines(ys) ==
    IF 2 * (ys[2] - ys[1]) + 3 * ys[3] <= 0 THEN 0
    ELSE (2 * (ys[2] - ys[1]) + 3 * ys[3]) \div (2 * ys[3])

\* _renderYAxes, labels on the left (the default y_label_side)
RenderYAxes(xs, ys, fmt, aa) ==
    Flatten([n \in 1..NYGridLines(ys) |->
        LET y == ys[1] + (n - 1) * ys[3]
        IN  <<Op("ygrid", None, n, xs[1], y, xs[2], y, chart_gridline_color, None, aa)>>
            \o IF (n - 1) % y_label_spacing = 0
               THEN <<[Op("ylabel", None, n, None, y, None, None, 0, None, None)
                       EXCEPT !.text = fmt]>>
               ELSE <<>>])

\* lines 376-379 with the test 'if this_line.line_gap_fraction:', for which a
\* fraction of zero is no fraction
MaxDxTruthy(line, xs) ==
    IF line.line_gap_fraction = None \/ line.line_gap_fraction = 0 THEN None
    ELSE line.line_gap_fraction * (xs[2] - xs[1])

\* ScaledDraw.line: the samples k for which a segment is drawn from sample k to
\* sample k + 1; a missing Y value breaks the line, and so does an X distance
\* above maxdx when there is one (maxdx counts hundredths of an X unit)
LineSegments(x, y, maxdx) ==
    {k \in 1..(Len(x) - 1) :
        /\ y[k] # None /\ y[k + 1] # None
        /\ maxdx = None \/ 100 * (x[k + 1] - x[k]) <= maxdx}

\* lines 376-379; the gap fraction counts hundredths, and so does the threshold
MaxDx(line, xs) ==
    IF line.line_gap_fraction = None THEN None
    ELSE line.line_gap_fraction * (xs[2] - xs[1])

\* the drawing calls for one series, lines 381-403
DrawPlotLine(line, iline, xs, ys, colors, fills, widths, aa) ==
    LET color      == LineColor(colors, line, iline)
        fill_color == LineFillColor(fills, line, iline)
        width      == LineWidth(widths, line, iline, aa)
        idx        == [k \in 1..Len(line.x) |-> k]
    IN  IF line.plot_type = "line"
        THEN <<[Op("series_line", iline, None, None, None, None, None, color, None, width)
                EXCEPT !.maxdx = MaxDx(line, xs),
                       !.segments = LineSegments(line.x, line.y, MaxDx(line, xs))]>>
        ELSE IF line.plot_type = "bar"
        THEN LET drawn == SelectSeq(idx, LAMBDA k : line.y[k] # None)
             IN  [n \in 1..Len(drawn) |->
                    Op("series_bar", iline, drawn[n],
                       line.x[drawn[n]] - line.bar_width[drawn[n]], ys[1],
                       line.x[drawn[n]], line.y[drawn[n]],
                       fill_color, color, None)]
        ELSE [k \in 1..Len(line.x) |->
                 Op("series_vector", iline, k, line.x[k], line.y[k], None, None,
                    color, None, width)]

\* the series taken in insertion order
DrawnLineForward(nlines, j) == j + 1

\* the position in line_list (from 1) of the j-th series drawn (j from 0): the
\* list is walked reversed, line 369
DrawnLine(nlines, j) == nlines - j

\* _renderPlotLines from the j-th drawn series on; st carries the calls made so far
\* and the rose fields
RECURSIVE PlotLinesFrom(_, _, _, _, _, _, _, _, _)
PlotLinesFrom(lines, j, st, xs, ys, colors, fills, widths, aa) ==
    IF j >= Len(lines) THEN st
    ELSE LET this_line == lines[DrawnLine(Len(lines), j)]
             iline     == DrawnLine(Len(lines), j) - 1
             ops       == DrawPlotLine(this_line, iline, xs, ys, colors, fills, widths, aa)
             isvec     == this_line.plot_type = "vector"
             st2 == [ops           |-> st.ops \o ops,
                     render_rose   |-> IF isvec THEN TRUE ELSE st.render_rose,
                     rose_rotation |-> IF isvec THEN this_line.vector_rotate
                                       ELSE st.rose_rotation,
                     rose_color    |-> IF isvec /\ st.rose_color = None
                                       THEN LineColor(colors, this_line, iline)
                                       ELSE st.rose_color]
         IN  PlotLinesFrom(lines, j + 1, st2, xs, ys, colors, fills, widths, aa)

\* the series drawn, the rose left as it was
RenderPlotLinesNoRose(lines, rr, rrot, rcol, xs, ys, colors, fills, widths, aa) ==
    [PlotLinesFrom(lines, 0,
                   [ops |-> <<>>, render_rose |-> rr, rose_rotation |-> rrot,
                    rose_color |-> rcol],
                   xs, ys, colors, fills, widths, aa)
     EXCEPT !.render_rose = rr, !.rose_rotation = rrot, !.rose_color = rcol]

RenderPlotLines(lines, rr, rrot, rcol, xs, ys, colors, fills, widths, aa) ==
    PlotLinesFrom(lines, 0,
                  [ops |-> <<>>, render_rose |-> rr, rose_rotation |-> rrot,
                   rose_color |-> rcol],
                  xs, ys, colors, fills, widths, aa)

\* the label of the rose, drawn on the rose's own plain surface (lines 476, 501, 510)
RoseLabel(bad) ==
    ImageDrawText(Op("rose_label", None, None, None, None, None, None, 0, None, None), bad)

\* _renderRose: the glyph in the rose colour, rotated, its label, and the paste
RenderRose(rcol, rrot, bad) ==
    <<Op("rose", None, None, None, None, None, None, rcol, None, rrot)>>
    \o (IF RoseLabel(bad).raised THEN <<>>
        ELSE <<RoseLabel(bad).op,
               Op("rose_paste", None, None, None, None, None, None, None, None, None)>>)

\* the image returned at the size of the canvas
RenderThumbnailUnscaled(aa) ==
    IF aa # 1
    THEN <<Op("thumbnail", None, None, 0, 0, image_width, image_height, None, None, None)>>
    ELSE <<>>

\* lines 229-232
RenderThumbnail(aa) ==
    IF aa # 1
    THEN <<Op("thumbnail", None, None, 0, 0, image_width \div aa, image_height \div aa,
              None, None, None)>>
    ELSE <<>>

\* the series drawn before the shading and the gridlines
RenderPhasesSeriesFirst(daynight, xaxes, yaxes, plotlines, rose, thumbnail) ==
    plotlines \o daynight \o xaxes \o yaxes \o rose \o thumbnail

\* render, lines 220-232: the drawing phases once scales and formats are resolved
RenderPhases(daynight, xaxes, yaxes, plotlines, rose, thumbnail) ==
    daynight \o xaxes \o yaxes \o plotlines \o rose \o thumbnail

(***************************************************************************)
(* Colour blending.  The channel fractions, hues, lightnesses, saturations *)
(* and weights are rationals <<numerator, denominator>> in lowest terms    *)
(* with a positive denominator, so the arithmetic below is exact where the *)
(* code's is in floating point.                                            *)
(***************************************************************************)
RECURSIVE GCD(_, _)
GCD(a, b) == IF b = 0 THEN a ELSE GCD(b, a % b)

Rat(n, d) ==
    LET g == GCD(Abs(n), Abs(d))
    IN  <<((IF d < 0 THEN -n ELSE n) \div g), Abs(d) \div g>>

RInt(k) == <<k, 1>>

RAdd(a, b) == Rat(a[1] * b[2] + b[1] * a[2], a[2] * b[2])

RSub(a, b) == Rat(a[1] * b[2] - b[1] * a[2], a[2] * b[2])

RMul(a, b) == Rat(a[1] * b[1], a[2] * b[2])

RDiv(a, b) == Rat(a[1] * b[2], a[2] * b[1])

RLess(a, b) == a[1] * b[2] < b[1] * a[2]

RAbs(a) == <<Abs(a[1]), a[2]>>

\* Python's a % 1.0
RMod1(a) == <<a[1] % a[2], a[2]>>

\* whether a lies exactly half way between two integers
RTie(a) == 2 * (a[1] % a[2]) = a[2]

\* Python's round(a) for a >= 0: to the nearest integer, a tie to the even one
RRound(a) ==
    LET q == a[1] \div a[2]
        r == 2 * (a[1] % a[2])
    IN  IF r < a[2] THEN q
        ELSE IF r > a[2] THEN q + 1
        ELSE IF q % 2 = 0 THEN q ELSE q + 1

\* int2rgb, lines 720-724
int2rgb(x) == <<x % 256, (x \div 256) % 256, (x \div 65536) % 256>>

\* rgb2int, lines 731-732
rgb2int(r, g, b) == r + g * 256 + b * 256 * 256

\* colorsys.rgb_to_hls of the channels R/255, G/255, B/255: <<h, l, s>>
rgb_to_hls(R, G, B) ==
    LET maxc == SetMax({R, G, B})
        minc == SetMin({R, G, B})
        l    == Rat(maxc + minc, 510)
        s    == IF maxc + minc <= 255 THEN Rat(maxc - minc, maxc + minc)
                ELSE Rat(maxc - minc, 510 - maxc - minc)
        h    == IF R = maxc THEN Rat(G - B, maxc - minc)
                ELSE IF G = maxc THEN RAdd(RInt(2), Rat(B - R, maxc - minc))
                ELSE RAdd(RInt(4), Rat(R - G, maxc - minc))
    IN  IF minc = maxc THEN <<RInt(0), l, RInt(0)>>
        ELSE <<RMod1(RDiv(h, RInt(6))), l, s>>

\* colorsys._v
HlsV(m1, m2, hue) ==
    LET h == RMod1(hue)
    IN  IF RLess(h, <<1, 6>>)
        THEN RAdd(m1, RMul(RMul(RSub(m2, m1), h), RInt(6)))
        ELSE IF RLess(h, <<1, 2>>) THEN m2
        ELSE IF RLess(h, <<2, 3>>)
        THEN RAdd(m1, RMul(RMul(RSub(m2, m1), RSub(<<2, 3>>, h)), RInt(6)))
        ELSE m1

\* colorsys.hls_to_rgb: the channel fractions <<r, g, b>>
hls_to_rgb(h, l, s) ==
    LET m2 == IF ~RLess(<<1, 2>>, l) THEN RMul(l, RAdd(RInt(1), s))
              ELSE RSub(RAdd(l, s), RMul(l, s))
        m1 == RSub(RMul(RInt(2), l), m2)
    IN  IF s = RInt(0) THEN <<l, l, l>>
        ELSE <<HlsV(m1, m2, RAdd(h, <<1, 3>>)), HlsV(m1, m2, h),
               HlsV(m1, m2, RSub(h, <<1, 3>>))>>

\* alpha * v1 + (1 - alpha) * v2 with the two ends swapped
BlendMixSwapped(alpha, v1, v2) ==
    RAdd(RMul(alpha, v2), RMul(RSub(RInt(1), alpha), v1))

\* alpha * v1 + (1 - alpha) * v2, lines 702-705
BlendMix(alpha, v1, v2) ==
    RAdd(RMul(alpha, v1), RMul(RSub(RInt(1), alpha), v2))

\* the hue interpolated on the straight way whatever the distance
BlendHueDirect(h1, h2, alpha_h) == BlendMix(alpha_h, h1, h2)

\* blend, lines 687-702: the hue between h1 and h2 at weight alpha_h
BlendHue(h1, h2, alpha_h) ==
    LET h_delta == RSub(h2, h1)
        h_range == RSub(RInt(1), RAbs(h_delta))
        h_dir   == IF RLess(h_delta, RInt(0)) THEN RInt(1) ELSE RInt(-1)
        h       == RSub(h2, RMul(RMul(h_dir, h_range), alpha_h))
        hup     == IF RLess(h, RInt(0)) THEN RAdd(h, RInt(1)) ELSE h
    IN  IF RLess(<<1, 2>>, RAbs(h_delta))
        THEN (IF RLess(RInt(1), hup) THEN RSub(hup, RInt(1)) ELSE hup)
        ELSE BlendMix(alpha_h, h1, h2)

\* blend, lines 686-687, without the two tests for a saturation of 0
GreyHuesKept(hls1, hls2) == <<hls1[1], hls2[1]>>

\* blend, lines 686-687: a colour of saturation 0 takes the hue of the other
\* one; the second test reads the hue the first one left
GreyHues(hls1, hls2) ==
    LET h1 == IF hls1[3] = RInt(0) THEN hls2[1] ELSE hls1[1]
        h2 == IF hls2[3] = RInt(0) THEN h1 ELSE hls2[1]
    IN  <<h1, h2>>

\* blend, lines 670-717: the record of one call.  tied tells that a channel
\* came out exactly half way between two integers; there the floating-point
\* error of the code decides which of the two it returns, and result holds
\* the even one.
BlendCall(c, bg, alpha_h, alpha_l, alpha_s) ==
    LET rgb1 == int2rgb(c)
        hls1 == rgb_to_hls(rgb1[1], rgb1[2], rgb1[3])
        rgb2 == int2rgb(bg)
        hls2 == rgb_to_hls(rgb2[1], rgb2[2], rgb2[3])
        h1   == GreyHues(hls1, hls2)[1]
        h2   == GreyHues(hls1, hls2)[2]
        h    == BlendHue(h1, h2, alpha_h)
        l    == BlendMix(alpha_l, hls1[2], hls2[2])
        s    == BlendMix(alpha_s, hls1[3], hls2[3])
        rgb  == hls_to_rgb(h, l, s)
    IN  [c |-> c, bg |-> bg, alpha |-> <<alpha_h, alpha_l, alpha_s>>,
         h1 |-> h1, h2 |-> h2, h |-> h, l |-> l, s |-> s,
         tied |-> \E k \in 1..3 : RTie(RMul(rgb[k], RInt(255))),
         result |-> rgb2int(RRound(RMul(rgb[1], RInt(255))),
                            RRound(RMul(rgb[2], RInt(255))),
                            RRound(RMul(rgb[3], RInt(255))))]

\* blend as a function of its arguments
blend(c, bg, alpha_h, alpha_l, alpha_s) == BlendCall(c, bg, alpha_h, alpha_l, alpha_s).result

(***************************************************************************)
(* Operations                                                              *)
(***************************************************************************)
\* addLine, for a chart that holds fewer than maxLines series
AddLine(line, maxLines) ==
    /\ HasNoneX(line) \/ Len(line_list) < maxLines
    /\ line_list' = AddLineList(line_list, line)
    /\ error' = AddLineError(line)
    /\ UNCHANGED <<variant, anti_alias, chart_line_colors, chart_fill_colors,
                   chart_line_widths, xscale, yscale, x_label_format, y_label_format,
                   render_rose, rose_rotation, rose_color, show_daynight,
                   daynight_gradient, latitude, canvas, xdata, ydata, resolved,
                   renders>>
    /\ UNCHANGED <<image_size, unit_label, unencodable, dn_answer, blend_call>>
    /\ UNCHANGED <<connection, schema_gen, db_call>>

SetXScaling(s) ==
    /\ xscale' = s
    /\ resolved' = FALSE
    /\ error' = "none"
    /\ UNCHANGED <<variant, anti_alias, chart_line_colors, chart_fill_colors,
                   chart_line_widths, line_list, yscale, x_label_format, y_label_format,
                   render_rose, rose_rotation, rose_color, show_daynight,
                   daynight_gradient, latitude, canvas, xdata, ydata, renders>>
    /\ UNCHANGED <<image_size, unit_label, unencodable, dn_answer, blend_call>>
    /\ UNCHANGED <<connection, schema_gen, db_call>>

SetYScaling(s) ==
    /\ yscale' = s
    /\ resolved' = FALSE
    /\ error' = "none"
    /\ UNCHANGED <<variant, anti_alias, chart_line_colors, chart_fill_colors,
                   chart_line_widths, line_list, xscale, x_label_format, y_label_format,
                   render_rose, rose_rotation, rose_color, show_daynight,
                   daynight_gradient, latitude, canvas, xdata, ydata, renders>>
    /\ UNCHANGED <<image_size, unit_label, unencodable, dn_answer, blend_call>>
    /\ UNCHANGED <<connection, schema_gen, db_call>>

\* setLocation; the longitude plays no part in what is modelled
SetLocation(lat) ==
    /\ latitude' = lat
    /\ error' = "none"
    /\ UNCHANGED <<variant, anti_alias, chart_line_colors, chart_fill_colors,
                   chart_line_widths, line_list, xscale, yscale, x_label_format,
                   y_label_format, render_rose, rose_rotation, rose_color, show_daynight,
                   daynight_gradient, canvas, xdata, ydata, resolved,
                   renders>>
    /\ UNCHANGED <<image_size, unit_label, unencodable, dn_answer, blend_call>>
    /\ UNCHANGED <<connection, schema_gen, db_call>>

\* setDayNight, called with the configured colours
SetDayNight(show) ==
    /\ show_daynight' = show
    /\ error' = "none"
    /\ UNCHANGED <<variant, anti_alias, chart_line_colors, chart_fill_colors,
                   chart_line_widths, line_list, xscale, yscale, x_label_format,
                   y_label_format, render_rose, rose_rotation, rose_color,
                   daynight_gradient, latitude, canvas, xdata, ydata, resolved,
                   renders>>
    /\ UNCHANGED <<image_size, unit_label, unencodable, dn_answer, blend_call>>
    /\ UNCHANGED <<connection, schema_gen, db_call>>

\* setUnitLabel
SetUnitLabel(label) ==
    /\ unit_label' = label
    /\ error' = "none"
    /\ UNCHANGED <<variant, anti_alias, chart_line_colors, chart_fill_colors,
                   chart_line_widths, line_list, xscale, yscale, x_label_format,
                   y_label_format, render_rose, rose_rotation, rose_color, show_daynight,
                   daynight_gradient, latitude, canvas, xdata, ydata, resolved,
                   renders>>
    /\ UNCHANGED <<image_size, unencodable, dn_answer, blend_call>>
    /\ UNCHANGED <<connection, schema_gen, db_call>>

\* the chart is not involved in a call of the blending functions
ChartUntouched ==
    UNCHANGED <<variant, anti_alias, image_size, unit_label, unencodable,
                chart_line_colors, chart_fill_colors, chart_line_widths, line_list,
                xscale, yscale, x_label_format, y_label_format, render_rose,
                rose_rotation, rose_color, show_daynight, daynight_gradient, latitude,
                canvas, xdata, ydata, resolved, dn_answer, error, renders>>

\* blend, lines 670-717
Blend(c, bg, alpha_h, alpha_l, alpha_s) ==
    /\ blend_call' = BlendCall(c, bg, alpha_h, alpha_l, alpha_s)
    /\ ChartUntouched
    /\ UNCHANGED <<connection, schema_gen, db_call>>

\* blend_hls, lines 658-661
BlendHls(c, bg, alpha) ==
    /\ blend_call' = BlendCall(c, bg, alpha, alpha, alpha)
    /\ ChartUntouched
    /\ UNCHANGED <<connection, schema_gen, db_call>>

\* blend_ls, lines 664-667
BlendLs(c, bg, alpha) ==
    /\ blend_call' = BlendCall(c, bg, RInt(1), alpha, alpha)
    /\ ChartUntouched
    /\ UNCHANGED <<connection, schema_gen, db_call>>

(***************************************************************************)
(* The PostgreSQL driver of weedb.  The native client (psycopg2) either     *)
(* raises psycopg2.Error with a pgcode, which may be None, or answers; an   *)
(* answer is abstracted to the number of rows it holds.                     *)
(***************************************************************************)
\* e.pgcode of an error that carries no code
NoPgCode == "None"

CannotConnectCodes == {"08000", "08001", "08003", "08004", "08006", "08007", "08P01"}
IntegrityCodes == {"23000", "23001", "23502", "23503", "23505", "23514", "23P01"}
PermissionCodes == {"28000", "2F002", "2F003", "2F004", "38001", "38002", "38003",
                    "38004", "42501"}
NoColumnCodes == {"42703", "42P10"}

\* EXCEPTION_MAP, lines 13-44
EXCEPTION_MAP ==
    [code \in CannotConnectCodes \cup IntegrityCodes \cup PermissionCodes
              \cup NoColumnCodes \cup {"28P01", "42P01", "42P04", "42P07", NoPgCode} |->
        IF code \in CannotConnectCodes THEN "weedb.CannotConnectError"
        ELSE IF code \in IntegrityCodes THEN "weedb.IntegrityError"
        ELSE IF code = "28P01" THEN "weedb.BadPasswordError"
        ELSE IF code \in PermissionCodes THEN "weedb.PermissionError"
        ELSE IF code \in NoColumnCodes THEN "weedb.NoColumnError"
        ELSE IF code = "42P01" THEN "weedb.NoTableError"
        ELSE IF code = "42P04" THEN "weedb.DatabaseExistsError"
        ELSE IF code = "42P07" THEN "weedb.TableExistsError"
        ELSE "weedb.DatabaseError"]

\* codes the server can send that EXCEPTION_MAP does not list: a syntax error
\* and a cancelled query
UnmappedCodes == {"42601", "57014"}

PgCodes == DOMAIN EXCEPTION_MAP \cup UnmappedCodes

\* the largest number of rows an answer of the client holds
MaxRows == 2

\* what a body that calls the client ends with
Raised(pgcode) == [raised |-> "psycopg2.Error", pgcode |-> pgcode, value |-> None]
Returned(value) == [raised |-> "none", pgcode |-> NoPgCode, value |-> value]

NativeOutcomes == {Raised(code) : code \in PgCodes} \cup {Returned(n) : n \in 0..MaxRows}

\* a body that calls the client for its effect only (commit, rollback, connect)
EffectOutcomes == {Raised(code) : code \in PgCodes} \cup {Returned(None)}

\* guarded_fn, lines 169-180: the result of fn is returned as it is, and a
\* psycopg2.Error leaves as the class EXCEPTION_MAP gives for its pgcode,
\* weedb.DatabaseError when the map does not list it
guard(outcome) ==
    IF outcome.raised = "psycopg2.Error"
    THEN [raised |-> IF outcome.pgcode \in DOMAIN EXCEPTION_MAP
                     THEN EXCEPTION_MAP[outcome.pgcode]
                     ELSE "weedb.DatabaseError",
          pgcode |-> outcome.pgcode, value |-> None]
    ELSE outcome

\* no generator yet, and the generator object a call of genSchemaOf makes
NoGenerator == [state |-> "none", rows |-> 0, next |-> 0]
NewGenerator == [state |-> "created", rows |-> 0, next |-> 0]

\* the body of genSchemaOf, lines 285-315, resumed by next(): the first
\* resumption runs cursor.execute and cursor.fetchall, every one yields the
\* next row or ends the iteration
SchemaResume(gen, outcome) ==
    IF gen.state = "created" /\ outcome.raised # "none"
    THEN [gen |-> [state |-> "done", rows |-> 0, next |-> 0], seen |-> outcome]
    ELSE LET rows == IF gen.state = "created" THEN outcome.value ELSE gen.rows
         IN  IF gen.next < rows
             THEN [gen |-> [state |-> "running", rows |-> rows, next |-> gen.next + 1],
                   seen |-> Returned(gen.next)]
             ELSE [gen |-> [state |-> "done", rows |-> rows, next |-> gen.next],
                   seen |-> Returned(None)]

\* no database operation yet
NoDbCall == [op |-> "none", native |-> Returned(None), seen |-> Returned(None)]

DbCall(op, native, seen) == [op |-> op, native |-> native, seen |-> seen]

\* a database operation leaves the charts and blend alone
PlotsUntouched == ChartUntouched /\ UNCHANGED blend_call

\* Connection.__init__, lines 235-258
Connect ==
    \E o \in EffectOutcomes :
        /\ db_call' = DbCall("Connection", o, guard(o))
        /\ connection' = IF o.raised = "none" THEN "open" ELSE connection
        /\ UNCHANGED schema_gen
        /\ PlotsUntouched

\* Connection.tables, lines 264-279
Tables ==
    \E o \in NativeOutcomes :
        /\ connection = "open"
        /\ db_call' = DbCall("tables", o, guard(o))
        /\ UNCHANGED <<connection, schema_gen>>
        /\ PlotsUntouched

\* Connection.genSchemaOf, lines 281-315: calling the generator function makes
\* a generator object and runs none of the body
GenSchemaOf ==
    /\ connection = "open"
    /\ schema_gen' = NewGenerator
    /\ db_call' = DbCall("genSchemaOf", Returned(None), guard(Returned(None)))
    /\ UNCHANGED connection
    /\ PlotsUntouched

\* next() on the generator genSchemaOf returned: the body runs in the caller's
\* frame, guarded_fn has returned already
SchemaNext ==
    \E o \in NativeOutcomes :
        /\ schema_gen.state \in {"created", "running"}
        /\ schema_gen.state = "running" => o = Returned(schema_gen.rows)
        /\ schema_gen' = SchemaResume(schema_gen, o).gen
        /\ db_call' = DbCall("genSchemaOf.next",
                             IF schema_gen.state = "created" THEN o ELSE Returned(None),
                             SchemaResume(schema_gen, o).seen)
        /\ UNCHANGED connection
        /\ PlotsUntouched

\* Connection.columnsOf, lines 317-325
ColumnsOf ==
    \E o \in NativeOutcomes :
        /\ connection = "open"
        /\ db_call' = DbCall("columnsOf", o, guard(o))
        /\ UNCHANGED <<connection, schema_gen>>
        /\ PlotsUntouched

\* Connection.get_variable, lines 327-334: the row found or None
GetVariable ==
    \E o \in {Raised(code) : code \in PgCodes} \cup {Returned(None), Returned(1)} :
        /\ connection = "open"
        /\ db_call' = DbCall("get_variable", o, guard(o))
        /\ UNCHANGED <<connection, schema_gen>>
        /\ PlotsUntouched

\* Connection.begin, lines 336-340: no call of the client
Begin ==
    /\ connection = "open"
    /\ db_call' = DbCall("begin", Returned(None), guard(Returned(None)))
    /\ UNCHANGED <<connection, schema_gen>>
    /\ PlotsUntouched

\* Connection.commit, lines 342-344
Commit ==
    \E o \in EffectOutcomes :
        /\ connection = "open"
        /\ db_call' = DbCall("commit", o, guard(o))
        /\ UNCHANGED <<connection, schema_gen>>
        /\ PlotsUntouched

\* Connection.rollback, lines 346-348
Rollback ==
    \E o \in EffectOutcomes :
        /\ connection = "open"
        /\ db_call' = DbCall("rollback", o, guard(o))
        /\ UNCHANGED <<connection, schema_gen>>
        /\ PlotsUntouched

\* Cursor.execute, lines 363-377, on a cursor of the open connection
CursorExecute ==
    \E o \in EffectOutcomes :
        /\ connection = "open"
        /\ db_call' = DbCall("Cursor.execute", o, guard(o))
        /\ UNCHANGED <<connection, schema_gen>>
        /\ PlotsUntouched

(***************************************************************************)
(* getDayNightTransitions is a collaborator outside the modelled file: it  *)
(* answers with the condition at the left edge and an ascending sequence   *)
(* of transition times strictly inside the X range.  It cannot answer      *)
(* without a latitude.                                                     *)
(***************************************************************************)
MaxTransitions == 2

TransitionTimes == {100, 200, 21600, 64800, 86300}

RECURSIVE Ascending(_)
Ascending(S) == IF S = {} THEN <<>> ELSE <<SetMin(S)>> \o Ascending(S \ {SetMin(S)})

DayNightAnswers(xs) ==
    {<<first, Ascending(S)>> :
        first \in {"day", "night"},
        S \in {T \in SUBSET {t \in TransitionTimes : xs[1] < t /\ t < xs[2]} :
                  Cardinality(T) <= MaxTransitions}}

\* what render asks of the collaborator: nothing unless day/night is shown
DayNightInputs(show, xs) == IF show THEN DayNightAnswers(xs) ELSE {<<"day", <<>>>>}

\* render with the day/night answer dn, for a chart rendered fewer than maxRenders times
RenderWith(dn, maxRenders) ==
    LET xs == CalcXScaling(variant, line_list, xscale)
        ys == CalcYScaling(line_list, yscale)
        xf == CalcXLabelFormat(variant, line_list, xs, x_label_format)
        yf == CalcYLabelFormat(ys, y_label_format)
        pl == RenderPlotLines(line_list, render_rose, rose_rotation, rose_color,
                              xs, ys, chart_line_colors, chart_fill_colors,
                              chart_line_widths, anti_alias)
        head == RenderCanvas \o RenderBottom
                \o RenderTopBand(line_list, chart_line_colors, unit_label)
        fails == show_daynight /\ latitude = None
        raises == pl.render_rose /\ RoseLabel(unencodable).raised
    IN  /\ renders < maxRenders
        /\ renders' = renders + 1
        /\ xscale' = xs
        /\ yscale' = ys
        /\ resolved' = TRUE
        /\ x_label_format' = xf
        /\ y_label_format' = yf
        /\ xdata' = IF XScalingUsesData(variant, xscale) THEN CalcXMinMax(line_list)
                    ELSE <<None, None>>
        /\ ydata' = CalcYMinMax(line_list)
        /\ dn_answer' = IF show_daynight /\ ~fails THEN dn ELSE <<"none", <<>>>>
        /\ IF fails
           THEN /\ error' = "TypeError"
                /\ canvas' = ViaUniDraw(head, unencodable)
                /\ UNCHANGED <<render_rose, rose_rotation, rose_color>>
           ELSE /\ error' = IF raises THEN "UnicodeEncodeError" ELSE "none"
                /\ canvas' = ViaUniDraw(head \o RenderPhases(
                        IF show_daynight
                        THEN RenderDayNight(xs, ys, dn[1], dn[2], latitude, daynight_gradient)
                        ELSE <<>>,
                        RenderXAxes(xs, ys, xf, anti_alias),
                        RenderYAxes(xs, ys, yf, anti_alias),
                        pl.ops,
                        IF pl.render_rose
                        THEN RenderRose(pl.rose_color, pl.rose_rotation, unencodable)
                        ELSE <<>>,
                        IF raises THEN <<>> ELSE RenderThumbnail(anti_alias)),
                     unencodable)
                /\ render_rose' = pl.render_rose
                /\ rose_rotation' = pl.rose_rotation
                /\ rose_color' = pl.rose_color
        /\ UNCHANGED <<variant, anti_alias, chart_line_colors, chart_fill_colors,
                       chart_line_widths, line_list, show_daynight, daynight_gradient,
                       latitude>>
        /\ UNCHANGED <<image_size, unit_label, unencodable, blend_call>>
        /\ UNCHANGED <<connection, schema_gen, db_call>>

Render(maxRenders) ==
    \E dn \in DayNightInputs(show_daynight /\ latitude # None,
                             CalcXScaling(variant, line_list, xscale)) :
        RenderWith(dn, maxRenders)

\* no call of blend yet
NoBlendCall ==
    [c |-> None, bg |-> None, alpha |-> <<>>, h1 |-> <<>>, h2 |-> <<>>, h |-> <<>>,
     l |-> <<>>, s |-> <<>>, tied |-> FALSE, result |-> None]

\* the state after construction with the plot options given: variant, anti-alias
\* factor, image size, palettes, label format, rose colour and day/night
\* configuration; bad names the labels the fonts cannot draw as native text
Constructed(v, aa, size, colors, fills, widths, xfmt, rcol, show, gradient, bad) ==
    /\ variant = v
    /\ anti_alias = aa
    /\ image_size = size
    /\ unit_label = ""
    /\ unencodable = bad
    /\ dn_answer = <<"none", <<>>>>
    /\ blend_call = NoBlendCall
    /\ chart_line_colors = colors
    /\ chart_fill_colors = fills
    /\ chart_line_widths = widths
    /\ line_list = <<>>
    /\ xscale = UnsetScale
    /\ yscale = UnsetScale
    /\ x_label_format = xfmt
    /\ y_label_format = NoFormat
    /\ render_rose = FALSE
    /\ rose_rotation = None
    /\ rose_color = rcol
    /\ show_daynight = show
    /\ daynight_gradient = gradient
    /\ latitude = None
    /\ canvas = <<>>
    /\ xdata = <<None, None>>
    /\ ydata = <<None, None>>
    /\ connection = "none"
    /\ schema_gen = NoGenerator
    /\ db_call = NoDbCall
    /\ resolved = FALSE
    /\ error = "none"
    /\ renders = 0

(***************************************************************************)
(* Spec: a chart of either variant with the default configuration, fed     *)
(* line and vector series with and without valid data, and scale hints.    *)
(***************************************************************************)
MaxLines == 1

MaxRenders == 2

DataXs == {<<0, 10>>, <<-10, 30>>, <<0, None>>}

DataYs == {<<None, None>>, <<-20, 5>>}

DataLines ==
    {PlotLine(x, y, t, None, None, None,
              <<>>,
              IF t = "vector" THEN 90 ELSE None, None) :
        x \in DataXs, y \in DataYs, t \in {"line", "vector"}}

XScaleInputs == {<<0, 100, 10>>, <<None, 50, None>>}

YScaleInputs == {<<0, 100, 10>>, <<None, 50, None>>}

Init ==
    \E v \in {"general", "time"} :
        Constructed(v, 1, DefaultImageSize, DefaultLineColors, DefaultLineColors, DefaultLineWidths,
                    NoFormat, None, FALSE, DefaultGradient, {})

Next ==
    \/ \E line \in DataLines : AddLine(line, MaxLines)
    \/ \E s \in XScaleInputs : SetXScaling(s)
    \/ \E s \in YScaleInputs : SetYScaling(s)
    \/ Render(MaxRenders)

Spec == Init /\ [][Next]_vars

(***************************************************************************)
(* Properties checked under Spec                                           *)
(***************************************************************************)
\* the step is a call of render
IsRender == renders' = renders + 1

\* the last render drew every series the chart holds now: its legend has one
\* entry per series, and series are only ever appended
RenderedAll ==
    /\ renders > 0
    /\ Cardinality({n \in DOMAIN canvas : canvas[n].kind = "legend"}) = Len(line_list)

NoValidY(lines) ==
    \A i \in DOMAIN lines : \A k \in DOMAIN lines[i].y : lines[i].y[k] = None

\* C1: addLine of a series with a missing X value raises ViolatedPrecondition
\* and leaves line_list as it was, and no series held by the chart ever has a
\* missing X value.
C1_MissingXRejectedAtAddLine ==
    /\ [](\A i \in DOMAIN line_list : None \notin Range(line_list[i].x))
    /\ [][\A line \in DataLines :
            (None \in Range(line.x) /\ AddLine(line, MaxLines))
                => (error' = "ViolatedPrecondition" /\ line_list' = line_list)]_vars

\* C1 witness: a series with a missing X was rejected by a chart that holds a
\* series and has rendered
C1_Witness == error = "ViolatedPrecondition" /\ line_list # <<>> /\ renders > 0

\* C2: every render keeps every component of xscale and of yscale that was set
\* before it.
C2_SetScaleComponentsPreserved ==
    [][IsRender =>
         \A i \in 1..3 : /\ xscale[i] # None => xscale'[i] = xscale[i]
                         /\ yscale[i] # None => yscale'[i] = yscale[i]]_vars

\* C5: a render of a chart in which no series has a valid Y value raises
\* nothing, leaves yscale = (0.0, 1.0, 0.2) and draws the Y gridlines of that
\* scale.
C5_NoValidYFallsBack ==
    [][(IsRender /\ NoValidY(line_list)) =>
         /\ error' = "none"
         /\ yscale' = <<0, 10, 2>>
         /\ {canvas'[n].y0 : n \in {m \in DOMAIN canvas' : canvas'[m].kind = "ygrid"}}
               = {0, 2, 4, 6, 8, 10}]_vars

\* C5 witness: the chart holds a series, none with a valid Y, and the last
\* render drew it on the fallback scale
C5_Witness ==
    /\ RenderedAll /\ resolved
    /\ line_list # <<>> /\ NoValidY(line_list)
    /\ yscale = <<0, 10, 2>>
    /\ \E n \in DOMAIN canvas : canvas[n].kind = "ygrid"

\* C6: a render that follows another with no setXScaling / setYScaling in
\* between leaves xscale and yscale as the earlier render resolved them.
C6_SecondRenderReusesScales ==
    [][(resolved /\ IsRender) => (xscale' = xscale /\ yscale' = yscale)]_vars

\* C6 witness: after two renders the scales are still those of the first,
\* although a series added in between reaches outside the X scale
C6_Witness ==
    /\ renders = 2 /\ resolved /\ RenderedAll
    /\ \E i \in DOMAIN line_list : \E k \in DOMAIN line_list[i].x :
          line_list[i].x[k] < xscale[1] \/ line_list[i].x[k] > xscale[2]
    /\ \E i \in DOMAIN line_list : ~NoValidY(<<line_list[i]>>)

(***************************************************************************)
(* SpecStyle: a generic chart with two-entry palettes and either           *)
(* anti-alias factor, fed one-sample series of every type with and without *)
(* colours and width of their own, and rendered once.                      *)
(***************************************************************************)
MaxStyleLines == 3

\* the colour, fill colour and width a series may carry of its own
OwnStyle == [color |-> 4210752, fill_color |-> 32896, width |-> 2]

\* a fill colour is given to bars only, a width to lines only, and vectors take
\* everything from the palettes
StyleLines ==
    {l \in {PlotLine(<<0>>, <<5>>, t, c, f, w,
                     IF t = "bar" THEN <<5>> ELSE <<>>,
                     IF t = "vector" THEN 90 ELSE None, None) :
               t \in {"line", "bar", "vector"}, c \in {None, OwnStyle.color},
               f \in {None, OwnStyle.fill_color}, w \in {None, OwnStyle.width}} :
        /\ l.plot_type # "bar" => l.fill_color = None
        /\ l.plot_type # "line" => l.width = None
        /\ l.plot_type = "vector" => l.color = None}

InitStyle ==
    \E aa \in {1, 2} :
        Constructed("general", aa, DefaultImageSize, ShortLineColors, ShortFillColors, ShortLineWidths,
                    NoFormat, None, FALSE, DefaultGradient, {})

NextStyle ==
    \/ \E line \in StyleLines : AddLine(line, MaxStyleLines)
    \/ Render(1)

SpecStyle == InitStyle /\ [][NextStyle]_vars

IsSeriesOp(op) == op.kind \in {"series_line", "series_bar", "series_vector"}

SeriesOps == SelectSeq(canvas, IsSeriesOp)

LegendOps == SelectSeq(canvas, LAMBDA op : op.kind = "legend")

\* C3: in the calls of a render, a call that draws a series added later never
\* comes after a call that draws a series added earlier, so the first-added
\* series is drawn last.
C3_SeriesDrawnInReverseInsertionOrder ==
    \A m, n \in DOMAIN canvas :
        (m < n /\ IsSeriesOp(canvas[m]) /\ IsSeriesOp(canvas[n]))
            => canvas[m].iline >= canvas[n].iline

\* C3 witness: a render drew three series, the last call being for the first
C3_Witness ==
    /\ Len(SeriesOps) = 3
    /\ SeriesOps[1].iline = 2 /\ SeriesOps[3].iline = 0

\* what C4 says of the series at insertion index i (from 0), with the width
\* multiplied by mult: sop is the call that draws it, lop its legend entry
StyleOfSeries(i, sop, lop) ==
    LET line   == line_list[i + 1]
        stroke == IF line.color # None THEN line.color
                  ELSE chart_line_colors[(i % Len(chart_line_colors)) + 1]
        fill   == IF line.fill_color # None THEN line.fill_color
                  ELSE chart_fill_colors[(i % Len(chart_fill_colors)) + 1]
        width  == IF line.width # None THEN line.width
                  ELSE chart_line_widths[(i % Len(chart_line_widths)) + 1]
    IN  /\ lop.fill = stroke
        /\ IF line.plot_type = "bar"
           THEN sop.kind = "series_bar" /\ sop.fill = fill /\ sop.outline = stroke
           ELSE sop.fill = stroke /\ sop.width = width * anti_alias

\* C4: the series at insertion index i is drawn with its own stroke colour,
\* fill colour and width when set, and otherwise with the palette entries at
\* i mod the palette length, and its legend entry has the same stroke colour.
\* The canvas is anti_alias times the image in each direction, so a width of
\* w image pixels is a stroke of w * anti_alias on the canvas.  Every series
\* of SpecStyle is drawn by exactly one call, so after a render of n series
\* the call for insertion index i is the (n - i)-th series call.
C4_StyleByInsertionIndex ==
    \A i \in 0..(Len(SeriesOps) - 1) :
        StyleOfSeries(i, SeriesOps[Len(SeriesOps) - i], LegendOps[i + 1])

\* C4 witness: three series were drawn with an anti-alias factor of 2, the
\* third without colour and width of its own, so the two-entry palettes wrap
C4_Witness ==
    /\ Len(SeriesOps) = 3 /\ anti_alias = 2
    /\ line_list[3].color = None /\ line_list[3].width = None
    /\ line_list[3].plot_type = "line"
    /\ line_list[2].plot_type = "bar" /\ line_list[2].fill_color = None
    /\ line_list[1].color # None

(***************************************************************************)
(* SpecBar: a generic chart fed bar series whose samples come in any       *)
(* order of X and with any mix of bar widths, and rendered once.           *)
(***************************************************************************)
MaxBarLines == 1

BarXValues == {0, 10, 20}

BarWidthValues == {5, 20}

\* the sequences over S, of any length from 1, that repeat no value
InjectiveSeqs(S) ==
    UNION {{q \in [1..n -> S] : \A i, j \in 1..n : i # j => q[i] # q[j]} :
              n \in 1..Cardinality(S)}

BarLines ==
    UNION {{PlotLine(x, [k \in DOMAIN x |-> 5], "bar", None, None, None, bw, None, None) :
               bw \in [DOMAIN x -> BarWidthValues]} :
              x \in InjectiveSeqs(BarXValues)}

InitBar ==
    Constructed("general", 1, DefaultImageSize, DefaultLineColors, DefaultLineColors, DefaultLineWidths,
                NoFormat, None, FALSE, DefaultGradient, {})

NextBar ==
    \/ \E line \in BarLines : AddLine(line, MaxBarLines)
    \/ Render(1)

SpecBar == InitBar /\ [][NextBar]_vars

BarOps == SelectSeq(canvas, LAMBDA op : op.kind = "series_bar")

UniformBarWidth(line) ==
    \A k \in DOMAIN line.bar_width : line.bar_width[k] = line.bar_width[1]

\* C8 as stated: no bar a render draws has its left edge left of the X minimum
\* that render computed from the data.
C8_NoBarLeftOfDataXMin ==
    \A n \in DOMAIN BarOps : BarOps[n].x0 >= xdata[1]

\* C8 amended: no bar whose width is at most the width of its series' first
\* bar has its left edge left of the X minimum computed from the data; a bar
\* wider than the first bar of its series can.
C8_NoBarUpToFirstWidthLeftOfDataXMin ==
    \A n \in DOMAIN BarOps :
        LET line == line_list[BarOps[n].iline + 1]
        IN  line.bar_width[BarOps[n].k] <= line.bar_width[1]
                => BarOps[n].x0 >= xdata[1]

\* C8 witness: a drawn bar series whose first bar is the widest and whose first
\* sample is not the leftmost
C8_Witness ==
    /\ RenderedAll /\ Len(BarOps) = 3
    /\ line_list[1].bar_width = <<20, 5, 5>>
    /\ line_list[1].x = <<10, 0, 20>>
    /\ xdata[1] = -20

\* C9: when the only series is a bar series of uniform bar width w, the X
\* extent render computes from the data is (smallest X - w, largest X).
C9_UniformBarSeriesXExtent ==
    (RenderedAll /\ Len(line_list) = 1 /\ UniformBarWidth(line_list[1]))
        => xdata = <<SetMin(Range(line_list[1].x)) - line_list[1].bar_width[1],
                     SetMax(Range(line_list[1].x))>>

\* C9 witness: X = [0, 10, 20] with bar width 5 gives the X minimum -5
C9_Witness ==
    /\ RenderedAll /\ Len(line_list) = 1
    /\ line_list[1].x = <<0, 10, 20>> /\ line_list[1].bar_width = <<5, 5, 5>>
    /\ xdata = <<-5, 20>>

(***************************************************************************)
(* SpecDayNight: a time chart with day/night shading configured, with      *)
(* and without a gradient, located at the equator, at mid latitude or at   *)
(* a pole, and rendered once.                                              *)
(***************************************************************************)
Latitudes == {0, 45, -90}

Gradients == {0, 4, DefaultGradient}

DayNightXScale == <<0, 86400, 21600>>

InitDayNight ==
    \E g \in Gradients :
        Constructed("time", 1, DefaultImageSize, DefaultLineColors, DefaultLineColors, DefaultLineWidths,
                    NoFormat, None, TRUE, g, {})

NextDayNight ==
    \/ \E lat \in Latitudes : SetLocation(lat)
    \/ \E show \in BOOLEAN : SetDayNight(show)
    \/ SetXScaling(DayNightXScale)
    \/ Render(1)

SpecDayNight == InitDayNight /\ [][NextDayNight]_vars

BandOps == SelectSeq(canvas, LAMBDA op : op.kind = "daynight_band")

FadeOps == SelectSeq(canvas, LAMBDA op : op.kind = "daynight_fade")

\* C7: every fade rectangle painted for a transition lies strictly between the
\* previous transition (or the left edge of the X range) and the next one (or
\* the right edge).  Band i+1 starts at transition i, so band i starts at the
\* previous boundary and band i+1 ends at the next.
C7_FadeRectanglesBetweenNeighbours ==
    \A n \in DOMAIN FadeOps :
        LET i == FadeOps[n].iline + 1
        IN  /\ BandOps[i].x0 < FadeOps[n].x0
            /\ FadeOps[n].x1 < BandOps[i + 1].x1

(***************************************************************************)
(* SpecTime: a time chart, with or without a configured X label format and *)
(* a caller's X scale of 40 days, fed line and bar series that span an     *)
(* hour, a day, 30 days and a second more than each, and rendered once.    *)
(***************************************************************************)
MaxTimeLines == 1

TimeSpans == {3600, 24 * 3600, 24 * 3600 + 1, 30 * 24 * 3600, 30 * 24 * 3600 + 1}

TimeLines ==
    {PlotLine(<<0, span>>, <<5, 5>>, t, None, None, None,
              IF t = "bar" THEN <<3600, 3600>> ELSE <<>>, None, None) :
        span \in TimeSpans, t \in {"line", "bar"}}

TimeXScale == <<0, 40 * 24 * 3600, 10 * 24 * 3600>>

InitTime ==
    \E fmt \in {NoFormat, "%H:%M"} :
        Constructed("time", 1, DefaultImageSize, DefaultLineColors, DefaultLineColors, DefaultLineWidths,
                    fmt, None, FALSE, DefaultGradient, {})

NextTime ==
    \/ \E line \in TimeLines : AddLine(line, MaxTimeLines)
    \/ SetXScaling(TimeXScale)
    \/ Render(1)

SpecTime == InitTime /\ [][NextTime]_vars

\* the default format C10 gives a time span
FormatForSpan(span) ==
    IF span > 30 * 24 * 3600 THEN "%x"
    ELSE IF span > 24 * 3600 THEN "%x %X"
    ELSE "%X"

\* C10: a render of the time variant that finds no X label format set leaves
\* the format that belongs to the span of the resolved X scale.
C10_TimeFormatFromResolvedSpan ==
    [][(IsRender /\ variant = "time" /\ x_label_format = NoFormat)
          => x_label_format' = FormatForSpan(xscale'[2] - xscale'[1])]_vars

(***************************************************************************)
(* SpecText: a generic chart whose fonts cannot draw some of its labels in *)
(* native form, with and without a unit label, fed a line or a vector      *)
(* series, and rendered once.                                              *)
(***************************************************************************)
MaxTextLines == 1

\* every site of render that draws text
TextKinds == UniDrawKinds \cup {"rose_label"}

TextLines ==
    {PlotLine(<<0, 10>>, <<-20, 5>>, t, None, None, None, <<>>,
              IF t = "vector" THEN 90 ELSE None, None) : t \in {"line", "vector"}}

InitText ==
    \E bad \in SUBSET TextKinds :
        Constructed("general", 1, DefaultImageSize, DefaultLineColors, DefaultLineColors,
                    DefaultLineWidths, NoFormat, None, FALSE, DefaultGradient, bad)

NextText ==
    \/ \E line \in TextLines : AddLine(line, MaxTextLines)
    \/ SetUnitLabel("F")
    \/ Render(1)

SpecText == InitText /\ [][NextText]_vars

\* C11: no render ends in an encoding failure, and every text call of the
\* last render handed its string over in native form, or as UTF-8 bytes when
\* the font cannot draw the native form, whichever site made the call.
C11_EveryTextDrawRetried ==
    /\ error # "UnicodeEncodeError"
    /\ \A i \in DOMAIN canvas :
          canvas[i].kind \in TextKinds
              => canvas[i].enc = IF canvas[i].kind \in unencodable THEN "utf-8"
                                 ELSE "native"

(***************************************************************************)
(* SpecRose: a generic chart with or without a configured rose colour, fed *)
(* line series and vector series of different rotations and colours, and   *)
(* rendered up to twice.                                                   *)
(***************************************************************************)
MaxRoseLines == 2

MaxRoseRenders == 2

ConfiguredRoseColor == [rose_color |-> 128]

RoseLines ==
    {PlotLine(<<0, 10>>, <<-20, 5>>, "line", None, None, None, <<>>, None, None)}
    \cup {PlotLine(<<0, 10>>, <<-20, 5>>, "vector", c, None, None, <<>>, rot, None) :
             c \in {None, OwnStyle.color}, rot \in {None, 90, 180}}

InitRose ==
    \E rcol \in {None, ConfiguredRoseColor.rose_color} :
        Constructed("general", 1, DefaultImageSize, DefaultLineColors, DefaultLineColors,
                    DefaultLineWidths, NoFormat, rcol, FALSE, DefaultGradient, {})

NextRose ==
    \/ \E line \in RoseLines : AddLine(line, MaxRoseLines)
    \/ Render(MaxRoseRenders)

SpecRose == InitRose /\ [][NextRose]_vars

\* the positions in line_list of the vector series
VectorLines == {i \in DOMAIN line_list : line_list[i].plot_type = "vector"}

KindsOf(ops) == {ops[i].kind : i \in DOMAIN ops}

\* every vector series has its drawing calls in ops, and after them the rose
\* is drawn and pasted
RoseWithVectors(ops) ==
    /\ \A v \in VectorLines :
          \E i \in DOMAIN ops : ops[i].kind = "series_vector" /\ ops[i].iline = v - 1
    /\ \E r, p \in DOMAIN ops :
          /\ ops[r].kind = "rose" /\ ops[p].kind = "rose_paste" /\ r < p
          /\ \A i \in DOMAIN ops : ops[i].kind = "series_vector" => i < r

\* C12: a render of a chart that holds a vector series draws the series and,
\* in the same pass, draws and pastes the compass rose, whether or not a rose
\* colour was configured; a render of a chart without one draws no rose.
C12_VectorSeriesBringsRose ==
    [][(IsRender /\ error' = "none")
          => IF VectorLines # {} THEN RoseWithVectors(canvas')
             ELSE KindsOf(canvas') \cap {"rose", "rose_label", "rose_paste"} = {}]_vars

\* C12 witness: a chart built without a rose colour was rendered with a line
\* series and a vector series, and the rose was pasted
C12_Witness ==
    /\ renders = 1 /\ error = "none" /\ Len(line_list) = 2
    /\ line_list[1].plot_type = "line" /\ line_list[2].plot_type = "vector"
    /\ line_list[2].color = None /\ rose_color = DefaultLineColors[2]
    /\ "series_vector" \in KindsOf(canvas) /\ "rose_paste" \in KindsOf(canvas)

\* C13: a rose colour that is set is never overwritten, and a render that
\* finds none set and draws vector series leaves the rotation and the colour
\* of one and the same vector series in the rose.
C13_RoseTakenFromOneVectorSeries ==
    [][/\ rose_color # None => rose_color' = rose_color
       /\ (IsRender /\ error' = "none" /\ rose_color = None /\ VectorLines # {})
             => \E v \in VectorLines :
                   /\ rose_rotation' = line_list[v].vector_rotate
                   /\ rose_color' = LineColor(chart_line_colors, line_list[v], v - 1)]_vars

(***************************************************************************)
(* The day/night renderer, under SpecDayNight                              *)
(***************************************************************************)
OpsOfKind(ops, kinds) == SelectSeq(ops, LAMBDA op : op.kind \in kinds)

PositionsOfKind(ops, kinds) == {i \in DOMAIN ops : ops[i].kind \in kinds}

\* bands holds one rectangle per stretch between the edges of xs and the
\* transitions t, over the whole of ys, in colours that start with the one of
\* the condition first and alternate
BandsTile(bands, xs, ys, first, t) ==
    /\ Len(bands) = Len(t) + 1
    /\ \A k \in DOMAIN bands :
          /\ bands[k].x0 = IF k = 1 THEN xs[1] ELSE t[k - 1]
          /\ bands[k].x1 = IF k = Len(t) + 1 THEN xs[2] ELSE t[k]
          /\ bands[k].y0 = ys[1] /\ bands[k].y1 = ys[2]
          /\ bands[k].fill \in {DefaultDayColor, DefaultNightColor}
          /\ k = 1 => bands[k].fill = IF first = "day" THEN DefaultDayColor
                                      ELSE DefaultNightColor
          /\ k > 1 => bands[k].fill # bands[k - 1].fill

\* C14: a render with day/night shading paints, for n transitions, n+1 full
\* height rectangles over [xmin,t1], [t1,t2], ..., [tn,xmax] in that order,
\* the first in the colour of the left edge's condition and each next one in
\* the other day/night colour.
C14_BandsTileXRange ==
    [][(IsRender /\ show_daynight /\ error' = "none")
          => BandsTile(OpsOfKind(canvas', {"daynight_band"}), xscale', yscale',
                       dn_answer'[1], dn_answer'[2])]_vars

\* C14 witness: a render that was told of night at the left edge and of two
\* transitions painted three bands
C14_Witness ==
    /\ renders = 1 /\ resolved /\ error = "none"
    /\ dn_answer = <<"night", <<21600, 64800>>>>
    /\ Len(BandOps) = 3
    /\ BandOps[1].fill = DefaultNightColor /\ BandOps[3].x1 = xscale[2]

\* one line per transition of t, at the transition and over the whole of ys,
\* after every band and every fade
EdgesOnTop(ops, ys, t) ==
    LET edges == OpsOfKind(ops, {"daynight_edge"})
    IN  /\ Len(edges) = Len(t)
        /\ \A i \in DOMAIN edges :
              /\ edges[i].x0 = t[i] /\ edges[i].x1 = t[i]
              /\ edges[i].y0 = ys[1] /\ edges[i].y1 = ys[2]
        /\ \A e \in PositionsOfKind(ops, {"daynight_edge"}) :
              \A r \in PositionsOfKind(ops, {"daynight_band", "daynight_fade"}) : r < e

\* C18: a render with day/night shading draws its edge lines after every band
\* and every fade rectangle, exactly one per transition, at the transition's
\* time and over the full resolved Y range, with or without a gradient.
C18_EdgeLinesLastOnePerTransition ==
    [][(IsRender /\ show_daynight /\ error' = "none")
          => EdgesOnTop(canvas', yscale', dn_answer'[2])]_vars

\* C18 witness: two transitions were rendered without a gradient, and two
\* edge lines were drawn
C18_Witness ==
    /\ renders = 1 /\ error = "none" /\ daynight_gradient = 0
    /\ Len(dn_answer[2]) = 2
    /\ Len(OpsOfKind(canvas, {"daynight_edge"})) = 2
    /\ FadeOps = <<>>

(***************************************************************************)
(* The time scale, under SpecTime                                          *)
(***************************************************************************)
\* C16: a render of the time variant leaves a fully set X scale as the caller
\* set it and asks nothing of the data for it; with a component unset it
\* takes the extent of the data to the Scale Engine.
C16_TimeScaleRecomputedOnlyWhenUnset ==
    [][(IsRender /\ variant = "time")
          => IF None \in Range(xscale)
             THEN xdata' = CalcXMinMax(line_list)
             ELSE xscale' = xscale /\ xdata' = <<None, None>>]_vars

\* C16 witness: a chart with a 40-day scale set by the caller and a series
\* spanning an hour was rendered
C16_Witness ==
    /\ renders = 1 /\ resolved /\ xscale = TimeXScale
    /\ Len(line_list) = 1 /\ line_list[1].x = <<0, 3600>>
    /\ xdata = <<None, None>>

(***************************************************************************)
(* SpecPhases: a time chart of several sizes and anti-alias factors, with  *)
(* day/night shading, fed a line and a vector series, and rendered once.   *)
(***************************************************************************)
MaxPhaseLines == 2

ImageSizes == {DefaultImageSize, <<301, 181>>}

AntiAliasFactors == {1, 2, 3}

InitPhases ==
    \E aa \in AntiAliasFactors, size \in ImageSizes, g \in {0, 4} :
        Constructed("time", aa, size, DefaultLineColors, DefaultLineColors,
                    DefaultLineWidths, NoFormat, None, TRUE, g, {})

NextPhases ==
    \/ \E line \in TextLines : AddLine(line, MaxPhaseLines)
    \/ SetLocation(45)
    \/ \E show \in BOOLEAN : SetDayNight(show)
    \/ Render(1)

SpecPhases == InitPhases /\ [][NextPhases]_vars

\* the phase of render a drawing call belongs to
Phase(op) ==
    IF op.kind \in {"daynight_band", "daynight_fade", "daynight_edge"} THEN 1
    ELSE IF op.kind \in {"xgrid", "xlabel", "ygrid", "ylabel"} THEN 2
    ELSE IF op.kind \in {"series_line", "series_bar", "series_vector"} THEN 3
    ELSE IF op.kind \in {"rose", "rose_label", "rose_paste"} THEN 4
    ELSE IF op.kind = "thumbnail" THEN 5
    ELSE 0

\* C15: among the drawing calls of a render, the day/night shading comes
\* before every gridline, the gridlines before every series, the series
\* before the compass rose, and the downsampling after everything else.
C15_PhasesInFixedOrder ==
    \A i, j \in DOMAIN canvas : i < j => Phase(canvas[i]) <= Phase(canvas[j])

\* C15 witness: a render that went through all the phases
C15_Witness ==
    /\ renders = 1 /\ error = "none"
    /\ {"daynight_band", "daynight_fade", "daynight_edge", "xgrid", "ygrid",
        "series_line", "series_vector", "rose_paste", "thumbnail"} \subseteq KindsOf(canvas)

\* the size of the bitmap render returns: the canvas, downsampled if it was
ReturnedSize(ops) ==
    IF PositionsOfKind(ops, {"thumbnail"}) = {} THEN <<ops[1].x1, ops[1].y1>>
    ELSE LET t == CHOOSE i \in PositionsOfKind(ops, {"thumbnail"}) : TRUE
         IN  <<ops[t].x1, ops[t].y1>>

\* C17: a render that raises nothing allocates a canvas of the requested
\* size times the anti-alias factor in each direction and returns a bitmap
\* of exactly the requested size.
C17_CanvasAndResultSizes ==
    [][(IsRender /\ error' = "none")
          => /\ canvas'[1].kind = "image"
             /\ <<canvas'[1].x1, canvas'[1].y1>> =
                   <<image_size[1] * anti_alias, image_size[2] * anti_alias>>
             /\ ReturnedSize(canvas') = image_size]_vars

\* C17 witness: 300 x 180 at an anti-alias factor of 3 was rendered on a
\* 900 x 540 canvas and returned at 300 x 180
C17_Witness ==
    /\ renders = 1 /\ error = "none" /\ anti_alias = 3 /\ image_size = <<300, 180>>
    /\ <<canvas[1].x1, canvas[1].y1>> = <<900, 540>>
    /\ ReturnedSize(canvas) = <<300, 180>>

(***************************************************************************)
(* SpecBlend: blend, blend_hls and blend_ls called with greys, primaries,  *)
(* pale and dark colours and two colours whose hues lie 0.87 apart, at     *)
(* weights from 0 to 1 in quarters.                                        *)
(***************************************************************************)
\* 0x000000, 0x999999, 0xffffff, red, green, blue, hue 1/30, hue 9/10, a pale
\* and a dark mixed colour (packed blue-green-red)
BlendColours ==
    {0, 10066329, 16777215, 255, 65280, 16711680,
     rgb2int(255, 51, 0), rgb2int(255, 0, 153), rgb2int(204, 153, 102),
     rgb2int(51, 102, 0)}

Weights == {<<0, 1>>, <<1, 4>>, <<1, 2>>, <<3, 4>>, <<1, 1>>}

InitBlend ==
    Constructed("general", 1, DefaultImageSize, DefaultLineColors, DefaultLineColors,
                DefaultLineWidths, NoFormat, None, FALSE, DefaultGradient, {})

\* the functions keep nothing between calls, so a behaviour makes one call
NextBlend ==
    \/ \E c, bg \in BlendColours, ah \in Weights, a \in {<<0, 1>>, <<1, 1>>} :
          blend_call = NoBlendCall /\ Blend(c, bg, ah, a, a)
    \/ \E c, bg \in BlendColours, a \in Weights :
          blend_call = NoBlendCall /\ BlendHls(c, bg, a)
    \/ \E c, bg \in BlendColours, a \in Weights :
          blend_call = NoBlendCall /\ BlendLs(c, bg, a)

SpecBlend == InitBlend /\ [][NextBlend]_vars

\* C19: blend with all three weights 1 returns the foreground colour and
\* with all three weights 0 the background colour.
C19_BlendWeightExtremes ==
    /\ blend_call.alpha = <<RInt(1), RInt(1), RInt(1)>>
          => blend_call.result = blend_call.c
    /\ blend_call.alpha = <<RInt(0), RInt(0), RInt(0)>>
          => blend_call.result = blend_call.bg

\* C19 witness: a grey was blended at weight 1 over a colour whose hue lies
\* more than half the wheel away from the hue the grey is given
C19_Witness ==
    /\ blend_call.alpha = <<RInt(1), RInt(1), RInt(1)>>
    /\ blend_call.c = 10066329 /\ blend_call.bg = rgb2int(255, 0, 153)
    /\ blend_call.result = 10066329

\* the distance of two hues round the wheel
HueDistance(a, b) ==
    LET d == RAbs(RSub(a, b))
    IN  IF RLess(<<1, 2>>, d) THEN RSub(RInt(1), d) ELSE d

\* C20: the hue blend interpolates to lies in [0,1] and on the shorter arc
\* between the two hues, the weight's share of that arc away from the
\* background hue.
C20_HueOnShorterArc ==
    blend_call # NoBlendCall
        => /\ ~RLess(blend_call.h, RInt(0)) /\ ~RLess(RInt(1), blend_call.h)
           /\ RAdd(HueDistance(blend_call.h, blend_call.h1),
                   HueDistance(blend_call.h, blend_call.h2))
                 = HueDistance(blend_call.h1, blend_call.h2)
           /\ HueDistance(blend_call.h, blend_call.h2)
                 = RMul(blend_call.alpha[1], HueDistance(blend_call.h1, blend_call.h2))

\* C20 witness: hue 1/30 was blended half way toward hue 9/10, through 0
C20_Witness ==
    /\ blend_call # NoBlendCall
    /\ blend_call.h1 = <<1, 30>> /\ blend_call.h2 = <<9, 10>>
    /\ blend_call.alpha[1] = <<1, 2>>
    /\ blend_call.h = <<29, 30>>

\* hue, lightness and saturation of a packed colour, as blend reads them
HlsOf(c) == rgb_to_hls(int2rgb(c)[1], int2rgb(c)[2], int2rgb(c)[3])

\* C21: when exactly one of the two colours has saturation 0, the hue of the
\* result is the hue of the other colour whatever the hue weight and whichever
\* argument is the grey one; lightness and saturation are still mixed from
\* both colours by their weights.
C21_GreyTakesOtherHue ==
    blend_call # NoBlendCall
        => LET hls1 == HlsOf(blend_call.c)
               hls2 == HlsOf(blend_call.bg)
               al   == blend_call.alpha[2]
               as   == blend_call.alpha[3]
           IN  /\ (hls1[3] = RInt(0) /\ hls2[3] # RInt(0))
                     => /\ blend_call.h = hls2[1]
                        /\ blend_call.l = RAdd(RMul(al, hls1[2]),
                                               RMul(RSub(RInt(1), al), hls2[2]))
                        /\ blend_call.s = RMul(RSub(RInt(1), as), hls2[3])
               /\ (hls2[3] = RInt(0) /\ hls1[3] # RInt(0))
                     => /\ blend_call.h = hls1[1]
                        /\ blend_call.l = RAdd(RMul(al, hls1[2]),
                                               RMul(RSub(RInt(1), al), hls2[2]))
                        /\ blend_call.s = RMul(as, hls1[3])

\* C21 witness: a grey background was blended with a foreground of hue 9/10
\* at hue weight 1/4, and the result has hue 9/10
C21_Witness ==
    /\ blend_call # NoBlendCall
    /\ blend_call.bg = 10066329 /\ blend_call.c = rgb2int(255, 0, 153)
    /\ blend_call.alpha[1] = <<1, 4>>
    /\ blend_call.h = <<9, 10>>

(***************************************************************************)
(* SpecYRange: a generic chart fed up to two series, vector or not, whose   *)
(* samples are valid, partly missing or all missing, and rendered.         *)
(***************************************************************************)
MaxYLines == 2

YSamples == {<<None, None>>, <<-20, 5>>, <<3, None>>, <<7, -2>>}

YLines ==
    {PlotLine(<<0, 10>>, y, t, None, None, None, <<>>,
              IF t = "vector" THEN 90 ELSE None, None) :
        y \in YSamples, t \in {"line", "vector"}}

InitYRange ==
    Constructed("general", 1, DefaultImageSize, DefaultLineColors, DefaultLineColors, DefaultLineWidths,
                NoFormat, None, FALSE, DefaultGradient, {})

NextYRange ==
    \/ \E line \in YLines : AddLine(line, MaxYLines)
    \/ Render(2)

SpecYRange == InitYRange /\ [][NextYRange]_vars

\* the values a series contributes to the Y data range
YContribution(line) ==
    LET valid == Range(line.y) \ {None}
    IN  IF line.plot_type # "vector" THEN valid
        ELSE IF valid = {} THEN {}
        ELSE {-SetMax({Abs(v) : v \in valid}), SetMax({Abs(v) : v \in valid})}

YContributions(lines) == UNION {YContribution(lines[i]) : i \in DOMAIN lines}

\* C22: the Y data range a render finds is the minimum and the maximum over
\* what the series contribute: a vector series -M and +M, M its largest
\* magnitude among valid samples, and nothing when it has none; any other
\* series its valid raw values.
C22_YDataRangeFromContributions ==
    [][IsRender =>
          ydata' = IF YContributions(line_list) = {} THEN <<None, None>>
                   ELSE <<SetMin(YContributions(line_list)),
                          SetMax(YContributions(line_list))>>]_vars

\* C22 witness: a vector series with the one valid sample 0.3 and a line series
\* with the samples 0.7 and -0.2 were rendered; the range found is -0.3 to 0.7
C22_Witness ==
    /\ renders = 1 /\ Len(line_list) = 2 /\ RenderedAll
    /\ line_list[1].plot_type = "vector" /\ line_list[1].y = <<3, None>>
    /\ line_list[2].plot_type = "line" /\ line_list[2].y = <<7, -2>>
    /\ ydata = <<-3, 7>>

(***************************************************************************)
(* SpecGap: a generic chart fed one line series with or without a gap      *)
(* fraction, under a scale the caller set or one computed from the data.   *)
(***************************************************************************)
MaxGapLines == 1

GapXs == {<<10, 15, 40>>, <<10, 25, 30>>, <<10, 20, 21>>}

\* gap fractions in hundredths: unset, 0, 0.1 and 0.2
GapFractions == {None, 0, 10, 20}

GapLines ==
    {PlotLine(x, <<1, 2, 3>>, "line", None, None, None, <<>>, None, gap) :
        x \in GapXs, gap \in GapFractions}

GapXScales == {<<0, 100, 10>>, <<0, 50, 10>>}

InitGap ==
    Constructed("general", 1, DefaultImageSize, DefaultLineColors, DefaultLineColors, DefaultLineWidths,
                NoFormat, None, FALSE, DefaultGradient, {})

NextGap ==
    \/ \E line \in GapLines : AddLine(line, MaxGapLines)
    \/ \E s \in GapXScales : SetXScaling(s)
    \/ Render(2)

SpecGap == InitGap /\ [][NextGap]_vars

SeriesLineOps == SelectSeq(canvas, LAMBDA op : op.kind = "series_line")

\* C23: a line series with a gap fraction (zero included) is drawn with the
\* threshold gap_fraction * (xmax - xmin) of the X scale, and two consecutive
\* samples are connected exactly when their X distance does not exceed it;
\* with no gap fraction no threshold is given and every consecutive pair is
\* connected.
C23_GapThresholdFromXRange ==
    (resolved /\ RenderedAll)
        => \A n \in DOMAIN SeriesLineOps :
              LET op   == SeriesLineOps[n]
                  line == line_list[op.iline + 1]
                  gap  == line.line_gap_fraction
                  span == xscale[2] - xscale[1]
              IN  IF gap = None
                  THEN /\ op.maxdx = None
                       /\ op.segments = 1..(Len(line.x) - 1)
                  ELSE /\ op.maxdx = gap * span
                       /\ op.segments =
                             {k \in 1..(Len(line.x) - 1) :
                                 ~(100 * (line.x[k + 1] - line.x[k]) > gap * span)}

\* C23 witness: over the X scale 0..100 a series with the gap fraction 0.1 and
\* samples at 10, 25 and 30 was drawn; 10 and 25 are not connected, 25 and 30 are
C23_Witness ==
    /\ resolved /\ RenderedAll /\ xscale = <<0, 100, 10>>
    /\ Len(SeriesLineOps) = 1
    /\ line_list[1].line_gap_fraction = 10 /\ line_list[1].x = <<10, 25, 30>>
    /\ SeriesLineOps[1].maxdx = 1000
    /\ SeriesLineOps[1].segments = {2}

(***************************************************************************)
(* SpecGuard: the PostgreSQL driver, each operation of it called in any    *)
(* order, the client raising any code of EXCEPTION_MAP, an unlisted code   *)
(* or none, or answering with up to MaxRows rows.                          *)
(***************************************************************************)
InitGuard ==
    Constructed("general", 1, DefaultImageSize, DefaultLineColors, DefaultLineColors, DefaultLineWidths,
                NoFormat, None, FALSE, DefaultGradient, {})

NextGuard ==
    \/ Connect
    \/ Tables
    \/ GenSchemaOf
    \/ SchemaNext
    \/ ColumnsOf
    \/ GetVariable
    \/ Begin
    \/ Commit
    \/ Rollback
    \/ CursorExecute

SpecGuard == InitGuard /\ [][NextGuard]_vars

\* C24: whenever the client raised during a guarded operation, iterating the
\* rows of genSchemaOf included, the caller gets the weedb class EXCEPTION_MAP
\* gives for the error's code, weedb.DatabaseError for a code that is absent
\* or not listed; and when the client raised nothing the caller gets the
\* operation's result.
C24_NativeErrorsConverted ==
    IF db_call.native.raised = "psycopg2.Error"
    THEN db_call.seen.raised =
            (IF db_call.native.pgcode \in DOMAIN EXCEPTION_MAP
             THEN EXCEPTION_MAP[db_call.native.pgcode]
             ELSE "weedb.DatabaseError")
    ELSE /\ db_call.seen.raised = "none"
         /\ db_call.op # "genSchemaOf.next" => db_call.seen.value = db_call.native.value

\* the same for every operation but the iteration of genSchemaOf's rows
C24_ConvertedOutsideIteration ==
    db_call.op # "genSchemaOf.next" => C24_NativeErrorsConverted

\* a missing table is met while the rows of genSchemaOf are iterated, and the
\* caller gets the client's own error
C24_NativeErrorEscapes ==
    /\ db_call.op = "genSchemaOf.next"
    /\ db_call.native = Raised("42P01")
    /\ db_call.seen.raised = "psycopg2.Error"

(***************************************************************************)
(* SpecGrid: a generic chart whose Y scale the caller sets in full or not *)
(* at all, with ranges that are and are not whole multiples of the        *)
(* increment, fed one series and rendered.                                *)
(***************************************************************************)
MaxGridLines == 1

\* in tenths: (0, 10, 1), (0, 10, 3), (0, 10, 4), (-5, 5, 4)
GridYScales == {<<0, 100, 10>>, <<0, 100, 30>>, <<0, 100, 40>>, <<-50, 50, 40>>}

InitGrid ==
    Constructed("general", 1, DefaultImageSize, DefaultLineColors, DefaultLineColors, DefaultLineWidths,
                NoFormat, None, FALSE, DefaultGradient, {})

NextGrid ==
    \/ \E line \in YLines : AddLine(line, MaxGridLines)
    \/ \E s \in GridYScales : SetYScaling(s)
    \/ Render(2)

SpecGrid == InitGrid /\ [][NextGrid]_vars

YGridOps == SelectSeq(canvas, LAMBDA op : op.kind = "ygrid")

\* C25: every horizontal gridline a render draws lies inside the Y scale that
\* render resolved: ymin <= y <= ymax.
C25_GridlinesInsideYScale ==
    (resolved /\ yscale[3] > 0)
        => \A n \in DOMAIN YGridOps :
              yscale[1] <= YGridOps[n].y0 /\ YGridOps[n].y0 <= yscale[2]

\* the scale (0, 10, 4) was rendered with four gridlines, the last one at 12
C25_GridlineAboveYMax ==
    /\ resolved /\ yscale = <<0, 100, 40>>
    /\ Len(YGridOps) = 4
    /\ YGridOps[4].y0 = 120

====
